---- MODULE Spec2Model ----
(***************************************************************************)
(* College administration API: the fee ledger (POST/PUT/DELETE /api/fees,  *)
(* PUT /api/fees/[id]/payment) and the students table it settles against   *)
(* (POST/PUT/DELETE /api/students).                                        *)
(*                                                                         *)
(* Money is held in integer hundredths (3 stands for 0.03).  The code keeps *)
(* it in IEEE doubles; the one place where the rounding of a double decides *)
(* an outcome, the 0.01 tolerance of the payment route, is modelled by     *)
(* ExceedsTolerance below.  Timestamps are readings of a logical clock;    *)
(* toISOString of reading t is <<t>>, SQL NULL is << >>.                   *)
(* Columns no operation of interest reads (names, e-mail, dueDate,         *)
(* createdAt, students.updatedAt) are left out of the rows.                *)
(***************************************************************************)
EXTENDS Integers, FiniteSets, Sequences, TLC

VARIABLES
    students,       \* students table: id -> row ("live" = FALSE: no such row)
    fees,           \* fees table: id -> row
    nextStudentId,  \* AUTOINCREMENT counter of students.id
    nextFeeId,      \* AUTOINCREMENT counter of fees.id
    clock,          \* Date.now()
    served,         \* requests to the fee ledger received so far
    pay,            \* per payment request handler: position and locals
    courses,        \* courses table: the rows ever inserted, by id
    nextCourseId,   \* AUTOINCREMENT counter of courses.id
    enrollments,    \* enrollments table, likewise; a deleted row is not live
    nextEnrollmentId,
    marks,          \* marks table, likewise
    nextMarksId,
    attendance,     \* attendance table: status -> number of rows
    faculty,        \* faculty table: number of rows
    dash,           \* the dashboard request handler: position and locals
    enroll,         \* per enrollment POST handler: position and locals
    localStorage,   \* the browser's localStorage: key -> value (Null: no item)
    isAuthenticated, \* the isAuthenticated state of Home and of Header
    tokenExpired,   \* Header's tokenExpired state
    token,          \* Home's token state (Null: none)
    user,           \* the user state of Home and of Header (Null: none)
    profileError    \* Header's profileError state: an error is shown

dbVars == <<students, fees, nextStudentId, nextFeeId>>
\* The tables the fee ledger does not touch, and the dashboard handler.
registryVars == <<courses, nextCourseId, enrollments, nextEnrollmentId,
                  marks, nextMarksId, attendance, faculty>>
\* The browser side: the stored credentials and Home's state.
clientVars == <<localStorage, isAuthenticated, tokenExpired, token, user, profileError>>
vars == <<students, fees, nextStudentId, nextFeeId, clock, served, pay,
          registryVars, dash, enroll, clientVars>>

(* ------------------------------ bounds -------------------------------- *)
MaxStudents == 2    \* students ever inserted
MaxFees == 1        \* fees ever inserted
MaxClock == 1       \* last reading of the clock
MaxRequests == 4    \* requests received in one behaviour
MaxCourses == 2     \* courses ever inserted
MaxEnrollments == 2 \* enrollments ever inserted
MaxMarks == 1       \* marks records ever inserted
MaxFaculty == 1     \* faculty rows ever inserted
MaxAttendance == 2  \* attendance rows after which none is added

StudentIds == 1..MaxStudents
FeeIds == 1..MaxFees
CourseIds == 1..MaxCourses
EnrollmentIds == 1..MaxEnrollments
MarksIds == 1..MaxMarks
Handlers == {1, 2}

\* A request arrives / a request already counted goes on.
Arrive == served < MaxRequests /\ served' = served + 1
Continue == UNCHANGED served

Null == << >>
ISO(t) == <<t>>
BadDate == <<0, 0>>     \* a string Date.parse() maps to NaN
IsValidDate(d) == Len(d) = 1

(* --------------------------- schema defaults -------------------------- *)
NoStudent == [live |-> FALSE, balance |-> 0, status |-> "active"]
NoFee == [live |-> FALSE, studentId |-> 0, amount |-> 0, status |-> "pending",
          paidDate |-> Null, updatedAt |-> Null, type |-> "tuition"]

validTypes == {"tuition", "exam", "library", "hostel"}
validStatuses == {"pending", "paid", "overdue"}

(* ------------------------- payment: validation ------------------------ *)
\* Math.abs(amount_paid - fee.amount) > 0.01 on doubles.  For amounts whose
\* decimal values differ by exactly 0.01 the sign of the rounding error of
\* the subtraction decides; RoundsAbove lists the larger amounts h (in
\* hundredths, h <= 10) for which double(h/100) - double((h-1)/100) is
\* above double(0.01): 0.04 - 0.03 = 0.010000000000000002.
RoundsAbove == {4, 5, 7, 10}
Abs(x) == IF x < 0 THEN -x ELSE x
Max2(a, b) == IF a < b THEN b ELSE a

ExceedsTolerance(amount_paid, amount) ==
    LET d == Abs(amount_paid - amount) IN
    IF d = 1 THEN Max2(amount_paid, amount) \in RoundsAbove ELSE d > 1


\* The checks made before the database is read (lines 152-207).  A request is
\* [auth, userId, idOk, feeId, hasUserId, amount_paid, payment_method,
\* transaction_id]; auth: getCurrentUser resolves a user, whose id is userId;
\* hasUserId: the body has a userId or user_id key; amount_paid = Null stands
\* for a body without the field, "" for a missing or empty string.
\* RequestError without the check of lines 152-155.
RequestErrorAnonymous(req) ==
    IF ~req.idOk THEN "INVALID_ID"
    ELSE IF req.hasUserId THEN "USER_ID_NOT_ALLOWED"
    ELSE IF req.amount_paid = Null THEN "MISSING_AMOUNT_PAID"
    ELSE IF req.payment_method = "" THEN "MISSING_PAYMENT_METHOD"
    ELSE IF req.transaction_id = "" THEN "MISSING_TRANSACTION_ID"
    ELSE IF req.amount_paid[1] <= 0 THEN "INVALID_AMOUNT"
    ELSE "OK"

\* RequestError without the check of lines 168-177.
RequestErrorTrusting(req) ==
    IF ~req.auth THEN "AUTH_REQUIRED"
    ELSE IF ~req.idOk THEN "INVALID_ID"
    ELSE IF req.amount_paid = Null THEN "MISSING_AMOUNT_PAID"
    ELSE IF req.payment_method = "" THEN "MISSING_PAYMENT_METHOD"
    ELSE IF req.transaction_id = "" THEN "MISSING_TRANSACTION_ID"
    ELSE IF req.amount_paid[1] <= 0 THEN "INVALID_AMOUNT"
    ELSE "OK"

RequestError(req) ==
    IF ~req.auth THEN "AUTH_REQUIRED"
    ELSE IF ~req.idOk THEN "INVALID_ID"
    ELSE IF req.hasUserId THEN "USER_ID_NOT_ALLOWED"
    ELSE IF req.amount_paid = Null THEN "MISSING_AMOUNT_PAID"
    ELSE IF req.payment_method = "" THEN "MISSING_PAYMENT_METHOD"
    ELSE IF req.transaction_id = "" THEN "MISSING_TRANSACTION_ID"
    ELSE IF req.amount_paid[1] <= 0 THEN "INVALID_AMOUNT"
    ELSE "OK"

\* RecordError with the amount compared before the status is looked at.
RecordErrorAmountFirst(amount_paid, fee, student) ==
    IF ~fee.live THEN "FEE_NOT_FOUND"
    ELSE IF ~student.live THEN "STUDENT_NOT_FOUND"
    ELSE IF ExceedsTolerance(amount_paid, fee.amount) THEN "AMOUNT_MISMATCH"
    ELSE IF fee.status = "paid" THEN "FEE_ALREADY_PAID"
    ELSE IF fee.status # "pending" /\ fee.status # "overdue" THEN "INVALID_FEE_STATUS"
    ELSE "OK"

\* RecordError without the two checks of the status.
RecordErrorAnyStatus(amount_paid, fee, student) ==
    IF ~fee.live THEN "FEE_NOT_FOUND"
    ELSE IF ~student.live THEN "STUDENT_NOT_FOUND"
    ELSE IF ExceedsTolerance(amount_paid, fee.amount) THEN "AMOUNT_MISMATCH"
    ELSE "OK"

\* The checks made on the joined fee/student row (lines 219-257).
RecordError(amount_paid, fee, student) ==
    IF ~fee.live THEN "FEE_NOT_FOUND"
    ELSE IF ~student.live THEN "STUDENT_NOT_FOUND"
    ELSE IF fee.status = "paid" THEN "FEE_ALREADY_PAID"
    ELSE IF fee.status # "pending" /\ fee.status # "overdue" THEN "INVALID_FEE_STATUS"
    ELSE IF ExceedsTolerance(amount_paid, fee.amount) THEN "AMOUNT_MISMATCH"
    ELSE "OK"

\* fees LEFT JOIN students ON fees.student_id = students.id
JoinedStudent(fee) ==
    IF fee.studentId \in StudentIds THEN students[fee.studentId] ELSE NoStudent

\* PaymentError with the fee looked up before the body is validated.
PaymentErrorReadFirst(req) ==
    IF ~req.auth \/ ~req.idOk \/ req.hasUserId THEN RequestError(req)
    ELSE IF ~fees[req.feeId].live THEN "FEE_NOT_FOUND"
    ELSE IF ~JoinedStudent(fees[req.feeId]).live THEN "STUDENT_NOT_FOUND"
    ELSE IF RequestError(req) # "OK" THEN RequestError(req)
    ELSE RecordError(req.amount_paid[1], fees[req.feeId], JoinedStudent(fees[req.feeId]))

PaymentError(req) ==
    IF RequestError(req) # "OK" THEN RequestError(req)
    ELSE RecordError(req.amount_paid[1], fees[req.feeId], JoinedStudent(fees[req.feeId]))

(* --------------------------- payment: effect -------------------------- *)
\* .set({status: 'paid', paidDate: ts, updatedAt: ts}) (lines 262-269)
PaidFee(fee, ts) ==
    [fee EXCEPT !.status = "paid", !.paidDate = ts, !.updatedAt = ts]

\* NewBalance with the sign of the payment flipped.
NewBalanceCredited(balance, amount_paid) == balance + amount_paid

\* newBalance = (student.balance || 0) - amount_paid (line 279)
NewBalance(balance, amount_paid) == balance - amount_paid

IdleHandler ==
    [pc |-> "idle", code |-> "NONE", feeId |-> 0, amount_paid |-> 0,
     studentId |-> 0, balance |-> 0, ts |-> Null,
     previousBalance |-> 0, newBalance |-> 0, processedBy |-> "",
     error |-> << >>]

\* String(error) of the exceptions a database call rejects with.
Exceptions ==
    {"LibsqlError: SQLITE_BUSY: database is locked", "TypeError: fetch failed"}

Respond(h, code) == pay' = [pay EXCEPT ![h] = [IdleHandler EXCEPT !.pc = "done", !.code = code]]

InFlight(h) == pay[h].pc \in {"validated", "feeWritten"}

\* Lines 150-259: the request is validated, the fee is read with its
\* student, and the timestamp of the payment is taken.
PayBegin(h, req) ==
    /\ Arrive
    /\ ~InFlight(h)
    /\ IF PaymentError(req) # "OK"
       THEN Respond(h, PaymentError(req))
       ELSE pay' = [pay EXCEPT ![h] =
                [IdleHandler EXCEPT !.pc = "validated",
                                    !.feeId = req.feeId,
                                    !.amount_paid = req.amount_paid[1],
                                    !.studentId = fees[req.feeId].studentId,
                                    !.balance = students[fees[req.feeId].studentId].balance,
                                    !.ts = ISO(clock),
                                    !.processedBy = req.userId]]
    /\ UNCHANGED <<dbVars, clock, registryVars, dash, enroll, clientVars>>

\* Lines 261-276: UPDATE fees SET ... WHERE id = feeId RETURNING *
PayWriteFee(h) ==
    /\ Continue
    /\ pay[h].pc = "validated"
    /\ IF fees[pay[h].feeId].live
       THEN /\ fees' = [fees EXCEPT ![pay[h].feeId] = PaidFee(@, pay[h].ts)]
            /\ pay' = [pay EXCEPT ![h].pc = "feeWritten"]
       ELSE /\ Respond(h, "UPDATE_FAILED")
            /\ UNCHANGED fees
    /\ UNCHANGED <<students, nextStudentId, nextFeeId, clock, registryVars, dash, enroll, clientVars>>

\* Lines 278-319: UPDATE students SET balance = newBalance WHERE id = student.id,
\* then the audit line and the 200 response.
PayWriteBalance(h) ==
    /\ Continue
    /\ pay[h].pc = "feeWritten"
    /\ students' = [students EXCEPT ![pay[h].studentId] =
            IF @.live
            THEN [@ EXCEPT !.balance = NewBalance(pay[h].balance, pay[h].amount_paid)]
            ELSE @]
    /\ pay' = [pay EXCEPT ![h] =
            [IdleHandler EXCEPT !.pc = "done", !.code = "OK",
                      !.feeId = pay[h].feeId,
                      !.previousBalance = pay[h].balance,
                      !.newBalance = NewBalance(pay[h].balance, pay[h].amount_paid),
                      !.processedBy = pay[h].processedBy]]
    /\ UNCHANGED <<fees, nextStudentId, nextFeeId, clock, registryVars, dash, enroll, clientVars>>

\* Lines 321-326: an awaited database call rejects (connection lost, process
\* killed); the catch block answers 500 with the parts of
\* 'Internal server error: ' + error, and nothing more is written.
PayFail(h) ==
    /\ Continue
    /\ InFlight(h)
    /\ \E thrown \in Exceptions :
         pay' = [pay EXCEPT ![h] =
            [IdleHandler EXCEPT !.pc = "done", !.code = "INTERNAL_ERROR",
                                !.error = <<"Internal server error: ", thrown>>]]
    /\ UNCHANGED <<dbVars, clock, registryVars, dash, enroll, clientVars>>

(* ------------------------------ /api/fees ----------------------------- *)
\* POST body: [studentId, amount, dueDateOk, type, status, paidDate]; 0 for a
\* missing studentId or amount, "" for a missing status, Null for no paidDate.
FeePostError(body) ==
    IF body.studentId = 0 THEN "MISSING_STUDENT_ID"
    ELSE IF body.amount <= 0 THEN "INVALID_AMOUNT"
    ELSE IF ~body.dueDateOk THEN "MISSING_DUE_DATE"
    ELSE IF body.type \notin validTypes THEN "INVALID_TYPE"
    ELSE IF body.status # "" /\ body.status \notin validStatuses THEN "INVALID_STATUS"
    ELSE IF ~students[body.studentId].live THEN "STUDENT_NOT_FOUND"
    ELSE IF body.paidDate # Null /\ ~IsValidDate(body.paidDate) THEN "INVALID_PAID_DATE"
    ELSE "OK"

\* .values({...}) (lines 510-521)
NewFee(body, now) ==
    [live |-> TRUE, studentId |-> body.studentId, amount |-> body.amount,
     status |-> IF body.status = "" THEN "pending" ELSE body.status,
     paidDate |-> body.paidDate, updatedAt |-> now, type |-> body.type]

FeePost(body) ==
    /\ Arrive
    /\ nextFeeId \in FeeIds
    /\ IF FeePostError(body) = "OK"
       THEN /\ fees' = [fees EXCEPT ![nextFeeId] = NewFee(body, ISO(clock))]
            /\ nextFeeId' = nextFeeId + 1
       ELSE UNCHANGED <<fees, nextFeeId>>
    /\ UNCHANGED <<students, nextStudentId, clock, pay, registryVars, dash, enroll, clientVars>>

\* PUT body: a record holding only the fields the request provides.
Has(body, f) == f \in DOMAIN body

\* The checks of PUT without those of type and status, as the students route
\* takes a status.
FeePutErrorUnvalidated(id, body) ==
    IF ~fees[id].live THEN "FEE_NOT_FOUND"
    ELSE IF Has(body, "studentId") /\ ~students[body.studentId].live THEN "STUDENT_NOT_FOUND"
    ELSE IF Has(body, "amount") /\ body.amount <= 0 THEN "INVALID_AMOUNT"
    ELSE IF Has(body, "paidDate") /\ body.paidDate # Null /\ ~IsValidDate(body.paidDate)
        THEN "INVALID_PAID_DATE"
    ELSE "OK"

FeePutError(id, body) ==
    IF ~fees[id].live THEN "FEE_NOT_FOUND"
    ELSE IF Has(body, "studentId") /\ ~students[body.studentId].live THEN "STUDENT_NOT_FOUND"
    ELSE IF Has(body, "amount") /\ body.amount <= 0 THEN "INVALID_AMOUNT"
    ELSE IF Has(body, "type") /\ body.type \notin validTypes THEN "INVALID_TYPE"
    ELSE IF Has(body, "status") /\ body.status \notin validStatuses THEN "INVALID_STATUS"
    ELSE IF Has(body, "paidDate") /\ body.paidDate # Null /\ ~IsValidDate(body.paidDate)
        THEN "INVALID_PAID_DATE"
    ELSE "OK"

\* .set(updates): the provided fields and updatedAt (lines 622-637)
Updated(row, body, now) ==
    [f \in DOMAIN row |->
        IF f = "updatedAt" THEN now
        ELSE IF Has(body, f) THEN body[f] ELSE row[f]]

FeePut(id, body) ==
    /\ Arrive
    /\ IF FeePutError(id, body) = "OK"
       THEN fees' = [fees EXCEPT ![id] = Updated(@, body, ISO(clock))]
       ELSE UNCHANGED fees
    /\ UNCHANGED <<students, nextStudentId, nextFeeId, clock, pay, registryVars, dash, enroll, clientVars>>

FeeDelete(id) ==
    /\ Arrive
    /\ fees[id].live
    /\ fees' = [fees EXCEPT ![id] = NoFee]
    /\ UNCHANGED <<students, nextStudentId, nextFeeId, clock, pay, registryVars, dash, enroll, clientVars>>

(* ---------------------------- /api/students --------------------------- *)
\* POST body: [ok, hasUserId, balance]; ok: name, email, course and year are
\* given and the e-mail is not taken.
StudentPostError(body) ==
    IF body.hasUserId THEN "USER_ID_NOT_ALLOWED"
    ELSE IF ~body.ok THEN "MISSING_REQUIRED_FIELD"
    ELSE "OK"

\* .values({...}): balance ? parseFloat(balance) : 0, status 'active'
NewStudent(body) == [live |-> TRUE, balance |-> body.balance, status |-> "active"]

StudentPost(body) ==
    /\ Arrive
    /\ nextStudentId \in StudentIds
    /\ IF StudentPostError(body) = "OK"
       THEN /\ students' = [students EXCEPT ![nextStudentId] = NewStudent(body)]
            /\ nextStudentId' = nextStudentId + 1
       ELSE UNCHANGED <<students, nextStudentId>>
    /\ UNCHANGED <<fees, nextFeeId, clock, pay, registryVars, dash, enroll, clientVars>>

\* PUT body: a record holding only the provided fields among balance, status;
\* hasUserId is always present.
StudentPutError(id, body) ==
    IF body.hasUserId THEN "USER_ID_NOT_ALLOWED"
    ELSE IF ~students[id].live THEN "STUDENT_NOT_FOUND"
    ELSE "OK"

\* the updates object of lines 657-677
StudentUpdated(row, body) ==
    [f \in DOMAIN row |-> IF f # "live" /\ Has(body, f) THEN body[f] ELSE row[f]]

StudentPut(id, body) ==
    /\ Arrive
    /\ IF StudentPutError(id, body) = "OK"
       THEN students' = [students EXCEPT ![id] = StudentUpdated(@, body)]
       ELSE UNCHANGED students
    /\ UNCHANGED <<fees, nextStudentId, nextFeeId, clock, pay, registryVars, dash, enroll, clientVars>>

Referenced(id) == \E f \in FeeIds : fees[f].live /\ fees[f].studentId = id

\* DELETE: fees.student_id REFERENCES students(id).  Whether SQLite enforces
\* the reference depends on the connection's foreign_keys pragma, so the
\* delete of a referenced student either fails or goes through.
StudentDelete(id, enforced) ==
    /\ Arrive
    /\ students[id].live
    /\ IF Referenced(id) /\ enforced
       THEN UNCHANGED students
       ELSE students' = [students EXCEPT ![id] = NoStudent]
    /\ UNCHANGED <<fees, nextStudentId, nextFeeId, clock, pay, registryVars, dash, enroll, clientVars>>

Tick ==
    /\ Continue
    /\ clock < MaxClock
    /\ clock' = clock + 1
    /\ UNCHANGED <<dbVars, pay, registryVars, dash, enroll, clientVars>>

(* ---------------------------- /api/courses ---------------------------- *)
NoCourse == [live |-> FALSE, code |-> ""]

\* code.trim().toUpperCase() on the course codes the requests use
ToUpperCase(code) == IF code = "cs" THEN "CS" ELSE code

\* POST body: [ok, code]; ok: title, credits and department are given; ""
\* for a missing code.  The code is looked up as given (line 131) and stored
\* in upper case (line 145) in a UNIQUE column.
CoursePostError(body) ==
    IF ~body.ok \/ body.code = "" THEN "MISSING_REQUIRED_FIELD"
    ELSE IF \E c \in DOMAIN courses : courses[c].live /\ courses[c].code = body.code
        THEN "DUPLICATE_CODE"
    ELSE IF \E c \in DOMAIN courses :
                courses[c].live /\ courses[c].code = ToUpperCase(body.code)
        THEN "INTERNAL_ERROR"
    ELSE "OK"

CoursePost(body) ==
    /\ nextCourseId \in CourseIds
    /\ IF CoursePostError(body) = "OK"
       THEN /\ courses' = Append(courses,
                    [live |-> TRUE, code |-> ToUpperCase(body.code)])
            /\ nextCourseId' = nextCourseId + 1
       ELSE UNCHANGED <<courses, nextCourseId>>
    /\ UNCHANGED <<dbVars, clock, served, pay, enrollments, nextEnrollmentId,
                   marks, nextMarksId, attendance, faculty, dash, enroll, clientVars>>

\* DELETE ?id=: lines 243-283, taken as one step. A course with an active
\* enrollment is refused. enrollments.course_id and marks.course_id REFERENCE
\* courses(id): where the connection enforces the references, the delete of
\* a course that any enrollment or marks record still refers to throws.
CourseDeleteError(id, enforced) ==
    IF id \notin DOMAIN courses \/ ~courses[id].live THEN "NOT_FOUND"
    ELSE IF \E e \in DOMAIN enrollments :
                /\ enrollments[e].live
                /\ enrollments[e].courseId = id
                /\ enrollments[e].status = "active"
        THEN "COURSE_HAS_ENROLLMENTS"
    ELSE IF /\ enforced
            /\ \/ \E e \in DOMAIN enrollments :
                        enrollments[e].live /\ enrollments[e].courseId = id
               \/ \E m \in DOMAIN marks : marks[m].live /\ marks[m].courseId = id
        THEN "INTERNAL_ERROR"
    ELSE "OK"

CourseDelete(id, enforced) ==
    /\ IF CourseDeleteError(id, enforced) = "OK"
       THEN courses' = [courses EXCEPT ![id] = NoCourse]
       ELSE UNCHANGED courses
    /\ UNCHANGED <<dbVars, clock, served, pay, nextCourseId, enrollments, nextEnrollmentId,
                   marks, nextMarksId, attendance, faculty, dash, enroll, clientVars>>

(* -------------------------- /api/enrollments -------------------------- *)
NoEnrollment == [live |-> FALSE, studentId |-> 0, courseId |-> 0, status |-> "active"]

VALID_STATUS_VALUES == {"active", "dropped", "completed"}

\* An id of a request: a positive integer, 0 for a missing (falsy) value,
\* NotANumber for a string parseInt maps to NaN.
NotANumber == -1

StudentExists(id) == id \in StudentIds /\ students[id].live
CourseExists(id) == id \in DOMAIN courses /\ courses[id].live

\* POST body: [studentId, courseId, status]; "" for no status.
EnrollmentPostError(body) ==
    IF body.studentId = 0 THEN "MISSING_STUDENT_ID"
    ELSE IF body.courseId = 0 THEN "MISSING_COURSE_ID"
    ELSE IF body.studentId = NotANumber THEN "INVALID_STUDENT_ID"
    ELSE IF body.courseId = NotANumber THEN "INVALID_COURSE_ID"
    ELSE IF body.status # "" /\ body.status \notin VALID_STATUS_VALUES THEN "INVALID_STATUS"
    ELSE IF ~StudentExists(body.studentId) THEN "STUDENT_NOT_FOUND"
    ELSE IF ~CourseExists(body.courseId) THEN "COURSE_NOT_FOUND"
    ELSE IF \E e \in DOMAIN enrollments :
                /\ enrollments[e].live
                /\ enrollments[e].studentId = body.studentId
                /\ enrollments[e].courseId = body.courseId
        THEN "ENROLLMENT_EXISTS"
    ELSE "OK"

EnrollmentPost(body) ==
    /\ nextEnrollmentId \in EnrollmentIds
    /\ IF EnrollmentPostError(body) = "OK"
       THEN /\ enrollments' = Append(enrollments,
                    [live |-> TRUE, studentId |-> body.studentId,
                     courseId |-> body.courseId,
                     status |-> IF body.status = "" THEN "active" ELSE body.status])
            /\ nextEnrollmentId' = nextEnrollmentId + 1
       ELSE UNCHANGED <<enrollments, nextEnrollmentId>>
    /\ UNCHANGED <<dbVars, clock, served, pay, courses, nextCourseId,
                   marks, nextMarksId, attendance, faculty, dash, enroll, clientVars>>

\* The same handler taken one awaited call at a time, for requests that are
\* in flight together. Lines 109-151: the body is validated.
EnrollmentBodyError(body) ==
    IF body.studentId = 0 THEN "MISSING_STUDENT_ID"
    ELSE IF body.courseId = 0 THEN "MISSING_COURSE_ID"
    ELSE IF body.studentId = NotANumber THEN "INVALID_STUDENT_ID"
    ELSE IF body.courseId = NotANumber THEN "INVALID_COURSE_ID"
    ELSE IF body.status # "" /\ body.status \notin VALID_STATUS_VALUES THEN "INVALID_STATUS"
    ELSE "OK"

\* An enrollment POST handler that has not received a request.
IdlePost == [pc |-> "idle", studentId |-> 0, courseId |-> 0, status |-> "", code |-> ""]

Responded(h, code) == enroll' = [enroll EXCEPT ![h].pc = "done", ![h].code = code]

Awaits(h, call) == enroll' = [enroll EXCEPT ![h].pc = call]

PostUnchanged ==
    UNCHANGED <<dbVars, clock, served, pay, registryVars, dash, clientVars>>

\* POST arrives; a valid body leads to the select of line 154.
PostBegin(h, body) ==
    /\ enroll[h].pc = "idle"
    /\ nextEnrollmentId + Cardinality({g \in Handlers : enroll[g].pc \notin {"idle", "done"}})
            \in EnrollmentIds
    /\ IF EnrollmentBodyError(body) = "OK"
       THEN enroll' = [enroll EXCEPT ![h] =
                [pc |-> "studentExists", studentId |-> body.studentId,
                 courseId |-> body.courseId, status |-> body.status, code |-> ""]]
       ELSE Responded(h, EnrollmentBodyError(body))
    /\ PostUnchanged

\* Lines 154-160
PostStudentExists(h) ==
    /\ enroll[h].pc = "studentExists"
    /\ IF StudentExists(enroll[h].studentId)
       THEN Awaits(h, "courseExists")
       ELSE Responded(h, "STUDENT_NOT_FOUND")
    /\ PostUnchanged

\* Lines 163-169
PostCourseExists(h) ==
    /\ enroll[h].pc = "courseExists"
    /\ IF CourseExists(enroll[h].courseId)
       THEN Awaits(h, "existingEnrollment")
       ELSE Responded(h, "COURSE_NOT_FOUND")
    /\ PostUnchanged

\* Lines 172-185
PostExistingEnrollment(h) ==
    /\ enroll[h].pc = "existingEnrollment"
    /\ IF \E e \in DOMAIN enrollments :
                /\ enrollments[e].live
                /\ enrollments[e].studentId = enroll[h].studentId
                /\ enrollments[e].courseId = enroll[h].courseId
       THEN Responded(h, "ENROLLMENT_EXISTS")
       ELSE Awaits(h, "insert")
    /\ PostUnchanged

\* Lines 187-199. Where the connection enforces the references of
\* enrollments.student_id and enrollments.course_id, the insert of a row whose
\* student or course is gone by now throws.
PostInsert(h, enforced) ==
    /\ enroll[h].pc = "insert"
    /\ IF enforced /\ ~(StudentExists(enroll[h].studentId) /\ CourseExists(enroll[h].courseId))
       THEN /\ Responded(h, "INTERNAL_ERROR")
            /\ UNCHANGED <<enrollments, nextEnrollmentId>>
       ELSE /\ enrollments' = Append(enrollments,
                    [live |-> TRUE, studentId |-> enroll[h].studentId,
                     courseId |-> enroll[h].courseId,
                     status |-> IF enroll[h].status = "" THEN "active"
                                                         ELSE enroll[h].status])
            /\ nextEnrollmentId' = nextEnrollmentId + 1
            /\ Responded(h, "OK")
    /\ UNCHANGED <<dbVars, clock, served, pay, courses, nextCourseId,
                   marks, nextMarksId, attendance, faculty, dash, clientVars>>

\* Lines 200-205: an awaited call rejects.
PostFail(h) ==
    /\ enroll[h].pc \in {"studentExists", "courseExists", "existingEnrollment", "insert"}
    /\ Responded(h, "INTERNAL_ERROR")
    /\ PostUnchanged

\* The response has been sent: the handler and its locals are gone.
PostReturn(h) ==
    /\ enroll[h].pc = "done"
    /\ enroll' = [enroll EXCEPT ![h] = IdlePost]
    /\ PostUnchanged

\* The rows the query of lines 281-288 returns: those with the final pair
\* AND the id of the record being updated.
duplicateEnrollment(id, finalStudentId, finalCourseId) ==
    {e \in DOMAIN enrollments :
        /\ enrollments[e].live
        /\ enrollments[e].studentId = finalStudentId
        /\ enrollments[e].courseId = finalCourseId
        /\ e = id}

\* PUT body: a record holding only the provided fields among studentId,
\* courseId, status.
EnrollmentPutError(id, body) ==
    IF id \notin DOMAIN enrollments \/ ~enrollments[id].live THEN "NOT_FOUND"
    ELSE IF Has(body, "status") /\ body.status # ""
            /\ body.status \notin VALID_STATUS_VALUES THEN "INVALID_STATUS"
    ELSE IF Has(body, "studentId") /\ body.studentId = NotANumber THEN "INVALID_STUDENT_ID"
    ELSE IF Has(body, "studentId") /\ ~StudentExists(body.studentId) THEN "STUDENT_NOT_FOUND"
    ELSE IF Has(body, "courseId") /\ body.courseId = NotANumber THEN "INVALID_COURSE_ID"
    ELSE IF Has(body, "courseId") /\ ~CourseExists(body.courseId) THEN "COURSE_NOT_FOUND"
    ELSE IF /\ Has(body, "studentId") \/ Has(body, "courseId")
            /\ \E e \in duplicateEnrollment(id,
                    IF Has(body, "studentId") THEN body.studentId
                                              ELSE enrollments[id].studentId,
                    IF Has(body, "courseId") THEN body.courseId
                                             ELSE enrollments[id].courseId) : e # id
        THEN "ENROLLMENT_EXISTS"
    ELSE "OK"

EnrollmentPut(id, body) ==
    /\ IF EnrollmentPutError(id, body) = "OK"
       THEN enrollments' = [enrollments EXCEPT ![id] =
                [f \in DOMAIN @ |-> IF Has(body, f) THEN body[f] ELSE @[f]]]
       ELSE UNCHANGED enrollments
    /\ UNCHANGED <<dbVars, clock, served, pay, courses, nextCourseId, nextEnrollmentId,
                   marks, nextMarksId, attendance, faculty, dash, enroll, clientVars>>

EnrollmentDelete(id) ==
    /\ id \in DOMAIN enrollments /\ enrollments[id].live
    /\ enrollments' = [enrollments EXCEPT ![id] = NoEnrollment]
    /\ UNCHANGED <<dbVars, clock, served, pay, courses, nextCourseId, nextEnrollmentId,
                   marks, nextMarksId, attendance, faculty, dash, enroll, clientVars>>

(* ----------------------------- /api/marks ----------------------------- *)
NoMarks == [live |-> FALSE, courseId |-> 0, internalMarks |-> 0,
            externalMarks |-> 0, totalMarks |-> 0, grade |-> "F"]

\* A marks value of a request: <<n>> for the integer n (a JSON number or a
\* numeric string), <<n, d>> for n.d with one decimal digit, << >> for a
\* value parseInt maps to NaN (text, null, true).
IsNaN(v) == Len(v) = 0
ParseInt(v) == v[1]

\* parseInt(x) || 0, also for a field the body does not have
ParsedOrZero(body, f) ==
    IF ~Has(body, f) \/ IsNaN(body[f]) THEN 0 ELSE ParseInt(body[f])

\* x !== undefined && (isNaN(parseInt(x)) || parseInt(x) < 0 || parseInt(x) > 100)
BadMarks(body, f) ==
    Has(body, f) /\ (IsNaN(body[f]) \/ ParseInt(body[f]) < 0 \/ ParseInt(body[f]) > 100)

calculateGrade(totalMarks) ==
    IF totalMarks >= 90 THEN "A"
    ELSE IF totalMarks >= 80 THEN "B"
    ELSE IF totalMarks >= 70 THEN "C"
    ELSE IF totalMarks >= 60 THEN "D"
    ELSE "F"

calculateTotalMarks(internalMarks, externalMarks) == internalMarks + externalMarks

\* POST body: [studentId, courseId, semester] and whichever of
\* internalMarks, externalMarks, totalMarks, grade the request provides.
MarksPostError(body) ==
    IF body.studentId = 0 THEN "MISSING_STUDENT_ID"
    ELSE IF body.courseId = 0 THEN "MISSING_COURSE_ID"
    ELSE IF body.semester = 0 THEN "MISSING_SEMESTER"
    ELSE IF body.studentId = NotANumber THEN "INVALID_STUDENT_ID"
    ELSE IF body.courseId = NotANumber THEN "INVALID_COURSE_ID"
    ELSE IF body.semester = NotANumber THEN "INVALID_SEMESTER"
    ELSE IF BadMarks(body, "internalMarks") THEN "INVALID_INTERNAL_MARKS"
    ELSE IF BadMarks(body, "externalMarks") THEN "INVALID_EXTERNAL_MARKS"
    ELSE IF ~StudentExists(body.studentId) THEN "STUDENT_NOT_FOUND"
    ELSE IF ~CourseExists(body.courseId) THEN "COURSE_NOT_FOUND"
    ELSE "OK"

\* insertData (lines 197-207)
NewMarks(body) ==
    LET i == ParsedOrZero(body, "internalMarks")
        e == ParsedOrZero(body, "externalMarks")
    IN  [live |-> TRUE, courseId |-> body.courseId,
         internalMarks |-> i, externalMarks |-> e,
         totalMarks |-> calculateTotalMarks(i, e),
         grade |-> calculateGrade(calculateTotalMarks(i, e))]

MarksPost(body) ==
    /\ nextMarksId \in MarksIds
    /\ IF MarksPostError(body) = "OK"
       THEN /\ marks' = Append(marks, NewMarks(body))
            /\ nextMarksId' = nextMarksId + 1
       ELSE UNCHANGED <<marks, nextMarksId>>
    /\ UNCHANGED <<dbVars, clock, served, pay, courses, nextCourseId,
                   enrollments, nextEnrollmentId, attendance, faculty, dash, enroll, clientVars>>

\* PUT body: whichever of studentId, courseId, semester, internalMarks,
\* externalMarks, totalMarks, grade the request provides.
MarksPutError(id, body) ==
    IF id \notin DOMAIN marks \/ ~marks[id].live THEN "NOT_FOUND"
    ELSE IF Has(body, "studentId") /\ body.studentId = NotANumber THEN "INVALID_STUDENT_ID"
    ELSE IF Has(body, "studentId") /\ ~StudentExists(body.studentId) THEN "STUDENT_NOT_FOUND"
    ELSE IF Has(body, "courseId") /\ body.courseId = NotANumber THEN "INVALID_COURSE_ID"
    ELSE IF Has(body, "courseId") /\ ~CourseExists(body.courseId) THEN "COURSE_NOT_FOUND"
    ELSE IF Has(body, "semester") /\ body.semester = NotANumber THEN "INVALID_SEMESTER"
    ELSE IF BadMarks(body, "internalMarks") THEN "INVALID_INTERNAL_MARKS"
    ELSE IF BadMarks(body, "externalMarks") THEN "INVALID_EXTERNAL_MARKS"
    ELSE "OK"

\* MarksUpdates taking the marks without recalculating the totals.
MarksUpdatesStale(row, body) ==
    [row EXCEPT !.internalMarks = IF Has(body, "internalMarks")
                                  THEN ParseInt(body.internalMarks) ELSE @,
                !.externalMarks = IF Has(body, "externalMarks")
                                  THEN ParseInt(body.externalMarks) ELSE @]

\* the updates object of lines 303-331 applied to the record read
MarksUpdates(row, body) ==
    LET i == IF Has(body, "internalMarks") THEN ParseInt(body.internalMarks)
                                           ELSE row.internalMarks
        e == IF Has(body, "externalMarks") THEN ParseInt(body.externalMarks)
                                           ELSE row.externalMarks
        moved == IF Has(body, "courseId") THEN [row EXCEPT !.courseId = body.courseId]
                                          ELSE row
    IN  IF Has(body, "internalMarks") \/ Has(body, "externalMarks")
        THEN [moved EXCEPT !.internalMarks = i, !.externalMarks = e,
                           !.totalMarks = calculateTotalMarks(i, e),
                           !.grade = calculateGrade(calculateTotalMarks(i, e))]
        ELSE moved

MarksPut(id, body) ==
    /\ IF MarksPutError(id, body) = "OK"
       THEN marks' = [marks EXCEPT ![id] = MarksUpdates(@, body)]
       ELSE UNCHANGED marks
    /\ UNCHANGED <<dbVars, clock, served, pay, courses, nextCourseId, nextMarksId,
                   enrollments, nextEnrollmentId, attendance, faculty, dash, enroll, clientVars>>

MarksDelete(id) ==
    /\ id \in DOMAIN marks /\ marks[id].live
    /\ marks' = [marks EXCEPT ![id] = NoMarks]
    /\ UNCHANGED <<dbVars, clock, served, pay, courses, nextCourseId, nextMarksId,
                   enrollments, nextEnrollmentId, attendance, faculty, dash, enroll, clientVars>>

(* --------------------------- /api/attendance -------------------------- *)
\* The attendance table by the one column the dashboard reads: the number
\* of rows of each status.
NoAttendance == [present |-> 0, absent |-> 0, late |-> 0]
AttendanceRows(tbl) == tbl.present + tbl.absent + tbl.late

\* POST body: [studentId, courseId, date, status, session]; "" for a missing
\* string, "2024-13" for a date that is not YYYY-MM-DD.
AttendancePostError(body) ==
    IF body.studentId = 0 THEN "MISSING_STUDENT_ID"
    ELSE IF body.courseId = 0 THEN "MISSING_COURSE_ID"
    ELSE IF body.date = "" THEN "MISSING_DATE"
    ELSE IF body.status = "" THEN "MISSING_STATUS"
    ELSE IF body.session = "" THEN "MISSING_SESSION"
    ELSE IF body.status \notin {"present", "absent", "late"} THEN "INVALID_STATUS"
    ELSE IF body.session \notin {"morning", "afternoon", "evening"} THEN "INVALID_SESSION"
    ELSE IF body.studentId = NotANumber THEN "INVALID_STUDENT_ID"
    ELSE IF body.courseId = NotANumber THEN "INVALID_COURSE_ID"
    ELSE IF body.date = "2024-13" THEN "INVALID_DATE_FORMAT"
    ELSE IF ~StudentExists(body.studentId) THEN "STUDENT_NOT_FOUND"
    ELSE IF ~CourseExists(body.courseId) THEN "COURSE_NOT_FOUND"
    ELSE "OK"

AttendancePost(body) ==
    /\ AttendanceRows(attendance) < MaxAttendance
    /\ IF AttendancePostError(body) = "OK"
       THEN attendance' = [attendance EXCEPT ![body.status] = @ + 1]
       ELSE UNCHANGED attendance
    /\ UNCHANGED <<dbVars, clock, served, pay, courses, nextCourseId,
                   enrollments, nextEnrollmentId, marks, nextMarksId, faculty, dash, enroll, clientVars>>

\* db/seeds/attendance.ts: for the active enrollments, a number of records
\* of randomly drawn statuses is generated and inserted; nothing is
\* inserted when there is no active enrollment.
AttendanceSeed(generated) ==
    /\ AttendanceRows(attendance) <= MaxAttendance
    /\ \E e \in DOMAIN enrollments : enrollments[e].live /\ enrollments[e].status = "active"
    /\ attendance' = [st \in DOMAIN attendance |-> attendance[st] + generated[st]]
    /\ UNCHANGED <<dbVars, clock, served, pay, courses, nextCourseId,
                   enrollments, nextEnrollmentId, marks, nextMarksId, faculty, dash, enroll, clientVars>>

(* ----------------------------- /api/faculty --------------------------- *)
\* POST body: [ok]; ok: the required fields are given, the e-mail is well
\* formed and not taken, the referenced user exists.
FacultyPost(body) ==
    /\ faculty < MaxFaculty
    /\ faculty' = IF body.ok THEN faculty + 1 ELSE faculty
    /\ UNCHANGED <<dbVars, clock, served, pay, courses, nextCourseId, enrollments,
                   nextEnrollmentId, marks, nextMarksId, attendance, dash, enroll, clientVars>>

(* ------------------------- /api/dashboard/stats ----------------------- *)
\* The queries of the handler in the order of the code. The two counts of
\* the enrollments (lines 44-47) and of the attendance records (lines 102-105)
\* are statements of their own, sent by one Promise.all and run by the
\* database one after the other.
Queries ==
    <<"overviewCounts", "studentsByCourse", "studentsByYear",
      "totalEnrollments", "activeEnrollments",
      "facultyByDepartment", "recentEnrollments", "recentFeePayments",
      "feeSums", "totalAttendanceRecords", "presentRecords",
      "averageGradesByCourse",
      "topPerformingCourses", "monthlyFeeCollection",
      "studentStatusDistribution", "overdueFeesByType">>

\* The sections of dashboardStats (lines 178-221).
Sections ==
    {"overview", "studentDistribution", "enrollmentStats", "facultyDistribution",
     "recentActivities", "feeStatistics", "attendanceStats",
     "performanceMetrics", "generatedAt"}

NoResponse == [status |-> 0, code |-> "", sections |-> {},
               completionRate |-> 0, overallPercentage |-> 0,
               averageGradesByCourse |-> {}, topPerformingCourses |-> << >>]

\* The handler of one request: pc = 0 when no request is being handled,
\* pc = k while the k-th query is awaited, pc = Done once it has responded;
\* the counts are those the queries of lines 44-47 and 102-105 returned.
Done == Len(Queries) + 1
IdleDash == [pc |-> 0, totalEnrollments |-> 0, activeEnrollments |-> 0,
             totalAttendanceRecords |-> 0, presentRecords |-> 0,
             averageGradesByCourse |-> {}, topPerformingCourses |-> << >>,
             response |-> NoResponse]

\* count() over the enrollments, and over those of status 'active'
CountEnrollments == Cardinality({e \in DOMAIN enrollments : enrollments[e].live})
CountActiveEnrollments ==
    Cardinality({e \in DOMAIN enrollments :
                    enrollments[e].live /\ enrollments[e].status = "active"})

\* The (part, total) pairs within the model's counts whose quotient times
\* 100 is a double just below a half that the exact value reaches:
\* (23 / 40) * 100 is 57.49999999999999.
RoundsBelowHalf == {<<23, 40>>}

\* Math.round((part / total) * 100) truncated instead of rounded.
MathRoundPercentFloored(part, total) == (100 * part) \div total

\* Math.round((part / total) * 100), total > 0
MathRoundPercent(part, total) ==
    IF <<part, total>> \in RoundsBelowHalf
    THEN ((200 * part + total) \div (2 * total)) - 1
    ELSE (200 * part + total) \div (2 * total)

\* total > 0 ? Math.round((part / total) * 100) : 0
Rate(part, total) == IF total > 0 THEN MathRoundPercent(part, total) ELSE 0

\* AVG(marks.totalMarks) of a group of marks records is kept as the sum and
\* the number of the records: the average is sum / count, NULL for count 0.
RECURSIVE SumTotalMarks(_)
SumTotalMarks(group) ==
    IF group = {} THEN 0
    ELSE LET m == CHOOSE x \in group : TRUE
         IN  marks[m].totalMarks + SumTotalMarks(group \ {m})

Average(group) ==
    [sum |-> SumTotalMarks(group), count |-> Cardinality(group)]

\* The rows of averageGradesByCourse (lines 112-122): marks with
\* totalMarks > 0 joined to their course, one row per course.
AverageGradesByCourse ==
    LET graded(c) == {m \in DOMAIN marks :
                        /\ marks[m].live
                        /\ marks[m].courseId = c
                        /\ marks[m].totalMarks > 0}
    IN  {[course |-> c, averageMarks |-> Average(graded(c))] :
            c \in {x \in DOMAIN courses : courses[x].live /\ graded(x) # {}}}

\* ORDER BY average DESC: a may stand before b; NULL sorts last.
Before(a, b) ==
    \/ b.averageMarks.count = 0
    \/ /\ a.averageMarks.count > 0
       /\ a.averageMarks.sum * b.averageMarks.count
            >= b.averageMarks.sum * a.averageMarks.count

\* LIMIT 5 of line 136
TopLimit == 5

\* The results topPerformingCourses may have (lines 125-136): every course
\* left-joined to all of its marks, in descending order of the average, the
\* first five of them; courses of equal average come in any order.
TopPerformingCourses ==
    LET rows == {[course |-> c,
                  averageMarks |-> Average({m \in DOMAIN marks :
                        marks[m].live /\ marks[m].courseId = c})] :
                    c \in {x \in DOMAIN courses : courses[x].live}}
        n == Cardinality(rows)
        ordered == {s \in [1..n -> rows] :
                      /\ \A i, j \in 1..n : i # j => s[i] # s[j]
                      /\ \A i, j \in 1..n : i < j => Before(s[i], s[j])}
    IN  {[i \in 1..(IF n < TopLimit THEN n ELSE TopLimit) |-> s[i]] : s \in ordered}

\* The 500 response carrying the sections computed so far.
ErrorResponsePartial(d) ==
    [NoResponse EXCEPT !.status = 500, !.code = "DASHBOARD_STATS_ERROR",
                       !.sections = IF d.pc > 1 THEN {"overview"} ELSE {}]

\* The response of the catch block (lines 225-231).
ErrorResponse(d) ==
    [NoResponse EXCEPT !.status = 500, !.code = "DASHBOARD_STATS_ERROR"]

\* dashboardStats with status 200 (lines 178-223)
StatsResponse(d) ==
    [status |-> 200, code |-> "OK", sections |-> Sections,
     completionRate |-> Rate(d.activeEnrollments, d.totalEnrollments),
     overallPercentage |-> Rate(d.presentRecords, d.totalAttendanceRecords),
     averageGradesByCourse |-> d.averageGradesByCourse,
     topPerformingCourses |-> d.topPerformingCourses]

\* The tables after a query of the handler, all of them selects; the variant
\* logs the request in the attendance table.
TablesAfterQueryLogged ==
    /\ attendance' = [attendance EXCEPT !.late = @ + 1]
    /\ UNCHANGED <<dbVars, courses, nextCourseId, enrollments, nextEnrollmentId,
                   marks, nextMarksId, faculty>>

TablesAfterQuery == UNCHANGED <<dbVars, registryVars>>

\* GET arrives: the handler starts and awaits its first query.
DashGet ==
    /\ dash.pc = 0
    /\ dash' = [IdleDash EXCEPT !.pc = 1]
    /\ UNCHANGED <<dbVars, registryVars, clock, served, pay, enroll, clientVars>>

\* The awaited query returns: its counts are kept, the next query is made,
\* and after the last one the response is built and sent.
DashQuery ==
    /\ dash.pc \in 1..Len(Queries)
    /\ \E top \in IF Queries[dash.pc] = "topPerformingCourses"
                    THEN TopPerformingCourses ELSE {<< >>} :
         LET d == IF Queries[dash.pc] = "totalEnrollments"
                  THEN [dash EXCEPT !.totalEnrollments = CountEnrollments]
                  ELSE IF Queries[dash.pc] = "activeEnrollments"
                  THEN [dash EXCEPT !.activeEnrollments = CountActiveEnrollments]
                  ELSE IF Queries[dash.pc] = "totalAttendanceRecords"
                  THEN [dash EXCEPT !.totalAttendanceRecords = AttendanceRows(attendance)]
                  ELSE IF Queries[dash.pc] = "presentRecords"
                  THEN [dash EXCEPT !.presentRecords = attendance.present]
                  ELSE IF Queries[dash.pc] = "averageGradesByCourse"
                  THEN [dash EXCEPT !.averageGradesByCourse = AverageGradesByCourse]
                  ELSE IF Queries[dash.pc] = "topPerformingCourses"
                  THEN [dash EXCEPT !.topPerformingCourses = top]
                  ELSE dash
         IN  dash' = IF dash.pc = Len(Queries)
                     THEN [d EXCEPT !.pc = Done, !.response = StatsResponse(d)]
                     ELSE [d EXCEPT !.pc = @ + 1]
    /\ TablesAfterQuery
    /\ UNCHANGED <<clock, served, pay, enroll, clientVars>>

\* The awaited query rejects: the catch block responds.
DashFail ==
    /\ dash.pc \in 1..Len(Queries)
    /\ dash' = [dash EXCEPT !.pc = Done, !.response = ErrorResponse(dash)]
    /\ TablesAfterQuery
    /\ UNCHANGED <<clock, served, pay, enroll, clientVars>>

\* The response has been sent: the handler and its locals are gone.
DashReturn ==
    /\ dash.pc = Done
    /\ dash' = IdleDash
    /\ UNCHANGED <<dbVars, registryVars, clock, served, pay, enroll, clientVars>>

(* ------------------------------ the client ---------------------------- *)
\* The keys the components store credentials under, and an empty storage.
AuthKeys == {"jwt", "auth_token", "auth_token_expiry"}
NoItems == [k \in AuthKeys |-> Null]

\* The components that keep an isAuthenticated state.
Components == {"Home", "Header"}

\* The lifetime of a stored token in ticks of the clock: 30 days with
\* rememberMe, 24 hours without (AuthPanel.tsx line 69).
Lifetime(rememberMe) == IF rememberMe THEN 2 ELSE 1

ClientUnchanged == UNCHANGED <<dbVars, clock, served, pay, registryVars, dash, enroll>>

\* AuthPanel's login succeeds (lines 256-260): storeToken, then Home's
\* handleAuthenticated (part_000 lines 47-54). AuthPanel is rendered while
\* Home is not authenticated.
Login(authToken, rememberMe) ==
    /\ ~isAuthenticated["Home"]
    /\ localStorage' = [localStorage EXCEPT
            !["auth_token"] = <<authToken>>,
            !["auth_token_expiry"] = <<clock + Lifetime(rememberMe)>>,
            !["jwt"] = <<authToken>>]
    /\ isAuthenticated' = [isAuthenticated EXCEPT !["Home"] = TRUE]
    /\ token' = <<authToken>>
    /\ user' = [user EXCEPT !["Home"] = <<authToken>>]
    /\ UNCHANGED <<tokenExpired, profileError>>
    /\ ClientUnchanged

\* Home.handleSignOut (part_000 lines 56-66), the sign-out of AdminConsole,
\* rendered while Home is authenticated.
handleSignOut ==
    /\ isAuthenticated["Home"]
    /\ localStorage' = [localStorage EXCEPT
            !["jwt"] = Null, !["auth_token"] = Null, !["auth_token_expiry"] = Null]
    /\ isAuthenticated' = [isAuthenticated EXCEPT !["Home"] = FALSE]
    /\ token' = Null
    /\ user' = [user EXCEPT !["Home"] = Null]
    /\ UNCHANGED <<tokenExpired, profileError>>
    /\ ClientUnchanged

\* Header.handleLogout (schema.ts lines 1743-1751), offered while Header is
\* authenticated: it sets Header's state, not Home's.
handleLogout ==
    /\ isAuthenticated["Header"]
    /\ localStorage' = [localStorage EXCEPT !["jwt"] = Null]
    /\ isAuthenticated' = [isAuthenticated EXCEPT !["Header"] = FALSE]
    /\ tokenExpired' = FALSE
    /\ user' = [user EXCEPT !["Header"] = Null]
    /\ profileError' = FALSE
    /\ UNCHANGED token
    /\ ClientUnchanged

\* Header.handleReLogin (schema.ts lines 1753-1759), offered once the token
\* was found expired.
handleReLogin ==
    /\ tokenExpired
    /\ localStorage' = [localStorage EXCEPT !["jwt"] = Null]
    /\ isAuthenticated' = [isAuthenticated EXCEPT !["Header"] = FALSE]
    /\ tokenExpired' = FALSE
    /\ UNCHANGED <<token, user, profileError>>
    /\ ClientUnchanged

\* Home.checkAuthStatus (part_000 lines 24-44) on the storage it finds
StoredToken(items) ==
    IF items["auth_token"] # Null THEN items["auth_token"] ELSE items["jwt"]

Unexpired(items) ==
    /\ StoredToken(items) # Null
    /\ items["auth_token_expiry"] # Null
    /\ clock < items["auth_token_expiry"][1]

\* The page is loaded: every component state starts from its default, then
\* Header.checkAuth (schema.ts lines 1680-1705) with fetchUserProfile (lines
\* 1707-1741) and Home.checkAuthStatus run. profile is what becomes of the
\* stored jwt: its exp claim has passed ("expired"), /profile answers 401
\* ("unauthorized"), the fetch fails ("failed") or the profile is loaded.
PageLoad(profile) ==
    /\ isAuthenticated' =
            [c \in Components |->
                IF c = "Header"
                THEN localStorage["jwt"] # Null /\ profile \in {"failed", "loaded"}
                ELSE Unexpired(localStorage)]
    /\ tokenExpired' =
            (localStorage["jwt"] # Null /\ profile \in {"expired", "unauthorized"})
    /\ profileError' = (localStorage["jwt"] # Null /\ profile = "failed")
    /\ user' = [c \in Components |->
                IF c = "Header" /\ profile = "loaded" THEN localStorage["jwt"] ELSE Null]
    /\ token' = IF Unexpired(localStorage) THEN StoredToken(localStorage) ELSE Null
    /\ localStorage' =
            IF /\ StoredToken(localStorage) # Null
               /\ localStorage["auth_token_expiry"] # Null
               /\ ~Unexpired(localStorage)
            THEN NoItems
            ELSE localStorage
    /\ ClientUnchanged

(* ------------------------------- inputs ------------------------------- *)
FeeAmounts == {3, 4}
PaidAmounts == {2, 3, 4}
Balances == {0, 4}

GoodRequest(feeId, amount) ==
    [auth |-> TRUE, userId |-> "staff", idOk |-> TRUE, feeId |-> feeId,
     hasUserId |-> FALSE,
     amount_paid |-> <<amount>>, payment_method |-> "cash", transaction_id |-> "TXN"]

\* Every amount for every fee id, and one request per check of lines 152-207;
\* those checks are made before the fee is read, so the malformed requests
\* are all addressed to fee 1.
PayRequests ==
    {GoodRequest(f, a) : f \in FeeIds, a \in PaidAmounts}
    \cup {[GoodRequest(1, 3) EXCEPT !.auth = FALSE, !.userId = ""]}
    \cup {[GoodRequest(1, 3) EXCEPT !.idOk = FALSE]}
    \cup {[GoodRequest(1, 3) EXCEPT !.hasUserId = TRUE]}
    \cup {[GoodRequest(1, 3) EXCEPT !.amount_paid = Null]}
    \cup {[GoodRequest(1, 3) EXCEPT !.amount_paid = <<0>>]}
    \cup {[GoodRequest(1, 3) EXCEPT !.payment_method = ""]}
    \cup {[GoodRequest(1, 3) EXCEPT !.transaction_id = ""]}

GoodFee(s, a, st) ==
    [studentId |-> s, amount |-> a, dueDateOk |-> TRUE, type |-> "tuition",
     status |-> st, paidDate |-> Null]

FeePostBodies ==
    {GoodFee(s, a, st) : s \in StudentIds, a \in FeeAmounts,
                         st \in {"", "overdue", "paid"}}
    \cup {[GoodFee(1, 3, "") EXCEPT !.studentId = 0],
          [GoodFee(1, 3, "") EXCEPT !.amount = 0],
          [GoodFee(1, 3, "") EXCEPT !.dueDateOk = FALSE],
          [GoodFee(1, 3, "") EXCEPT !.type = "gym"],
          [GoodFee(1, 3, "") EXCEPT !.status = "void"],
          [GoodFee(1, 3, "") EXCEPT !.paidDate = BadDate],
          [GoodFee(1, 3, "paid") EXCEPT !.paidDate = ISO(0)]}

FeePutBodies ==
    {[status |-> st] : st \in {"pending", "overdue", "paid", "void"}}
    \cup {[amount |-> a] : a \in FeeAmounts \cup {0}}
    \cup {[paidDate |-> d] : d \in {Null, ISO(0), BadDate}}
    \cup {[studentId |-> s] : s \in StudentIds}
    \cup {[type |-> t] : t \in {"tuition", "gym"}}

StudentPostBodies ==
    {[ok |-> TRUE, hasUserId |-> FALSE, balance |-> b] : b \in Balances}
    \cup {[ok |-> FALSE, hasUserId |-> FALSE, balance |-> 0],
          [ok |-> TRUE, hasUserId |-> TRUE, balance |-> 0]}

StudentPutBodies ==
    {[hasUserId |-> FALSE, balance |-> b] : b \in Balances}
    \cup {[hasUserId |-> TRUE]}

\* One student record as the registry needs it, and the course codes.
EnrolledStudentBodies == {[ok |-> TRUE, hasUserId |-> FALSE, balance |-> 0]}

CoursePostBodies ==
    {[ok |-> TRUE, code |-> c] : c \in {"CS", "cs", "MA", ""}}
    \cup {[ok |-> FALSE, code |-> "CS"]}

GoodEnrollment(s, c, st) == [studentId |-> s, courseId |-> c, status |-> st]

EnrollmentPostBodies ==
    {GoodEnrollment(s, c, st) : s \in StudentIds, c \in CourseIds,
                                st \in {"", "completed"}}
    \cup {GoodEnrollment(0, 1, ""), GoodEnrollment(1, 0, ""),
          GoodEnrollment(NotANumber, 1, ""), GoodEnrollment(1, NotANumber, ""),
          GoodEnrollment(1, 1, "paused")}

EnrollmentPutBodies ==
    {[studentId |-> s] : s \in StudentIds \cup {NotANumber}}
    \cup {[courseId |-> c] : c \in CourseIds \cup {NotANumber}}
    \cup {[studentId |-> s, courseId |-> c] : s \in StudentIds, c \in CourseIds}
    \cup {[status |-> st] : st \in {"dropped", "paused"}}

\* Marks values of requests: integers at the grade boundaries' sums, a
\* decimal, values out of range and one that is not a number.
MarksValues == {<<0>>, <<30>>, <<45>>, <<89, 5>>, <<100>>, <<101>>, <<-1>>, << >>}

GoodMarks == [studentId |-> 1, courseId |-> 1, semester |-> 1]

MarksPostBodies ==
    {GoodMarks,
     [GoodMarks EXCEPT !.studentId = 0], [GoodMarks EXCEPT !.courseId = 0],
     [GoodMarks EXCEPT !.semester = 0], [GoodMarks EXCEPT !.studentId = NotANumber],
     [GoodMarks EXCEPT !.courseId = NotANumber],
     [GoodMarks EXCEPT !.semester = NotANumber], [GoodMarks EXCEPT !.studentId = 2]}
    \cup {[studentId |-> 1, courseId |-> 1, semester |-> 1, internalMarks |-> v] :
            v \in MarksValues}
    \cup {[studentId |-> 1, courseId |-> 1, semester |-> 1, externalMarks |-> v,
           totalMarks |-> <<100>>, grade |-> "A"] : v \in MarksValues}
    \cup {[studentId |-> 1, courseId |-> 1, semester |-> 1, internalMarks |-> v,
           externalMarks |-> v] : v \in MarksValues}

MarksPutBodies ==
    {[internalMarks |-> v] : v \in MarksValues}
    \cup {[externalMarks |-> v] : v \in MarksValues}
    \cup {[totalMarks |-> <<100>>, grade |-> "A"],
          [externalMarks |-> <<0>>, totalMarks |-> <<100>>, grade |-> "A"],
          [studentId |-> NotANumber], [studentId |-> 2], [courseId |-> NotANumber],
          [courseId |-> 2], [semester |-> NotANumber], [semester |-> 2]}

GoodAttendance(st) ==
    [studentId |-> 1, courseId |-> 1, date |-> "2024-01-15", status |-> st,
     session |-> "morning"]

AttendancePostBodies ==
    {GoodAttendance(st) : st \in {"present", "absent", "", "excused"}}
    \cup {[GoodAttendance("present") EXCEPT !.studentId = 0],
          [GoodAttendance("present") EXCEPT !.courseId = 0],
          [GoodAttendance("present") EXCEPT !.date = ""],
          [GoodAttendance("present") EXCEPT !.session = ""],
          [GoodAttendance("present") EXCEPT !.session = "night"],
          [GoodAttendance("present") EXCEPT !.studentId = NotANumber],
          [GoodAttendance("present") EXCEPT !.courseId = NotANumber],
          [GoodAttendance("present") EXCEPT !.date = "2024-13"]}

\* Numbers of records a run of the seed script generates.
SeedCounts ==
    {[present |-> 2, absent |-> 1, late |-> 0],
     [present |-> 23, absent |-> 15, late |-> 2]}

FacultyPostBodies == {[ok |-> TRUE], [ok |-> FALSE]}

\* What the dashboard counts: enrollments of one course, active or completed.
CountedCourseBodies == {[ok |-> TRUE, code |-> "CS"]}
CountedEnrollmentBodies ==
    {GoodEnrollment(s, 1, st) : s \in StudentIds, st \in {"", "completed"}}

\* Marks of the courses the dashboard averages: no marks given (a total of
\* 0), a pass and full marks.
GradedMarksPostBodies ==
    {[studentId |-> 1, courseId |-> c, semester |-> 1] : c \in CourseIds}
    \cup {[studentId |-> 1, courseId |-> c, semester |-> 1, internalMarks |-> v] :
            c \in CourseIds, v \in {<<60>>, <<100>>}}

GradedMarksPutBodies ==
    {[internalMarks |-> v] : v \in {<<0>>, <<60>>, <<100>>}}
    \cup {[courseId |-> c] : c \in CourseIds}

\* Student updates of the status, the stated ones and another text.
StatusPutBodies ==
    {[hasUserId |-> FALSE, status |-> st] :
        st \in {"active", "inactive", "graduated", "expelled"}}
    \cup {[hasUserId |-> FALSE, status |-> "inactive", balance |-> 4],
          [hasUserId |-> TRUE, status |-> "inactive"]}

(* --------------------------- specifications --------------------------- *)
\* The keys the components store credentials under, and an empty storage.
Init ==
    /\ students = [s \in StudentIds |-> NoStudent]
    /\ fees = [f \in FeeIds |-> NoFee]
    /\ nextStudentId = 1
    /\ nextFeeId = 1
    /\ clock = 0
    /\ served = 0
    /\ pay = [h \in Handlers |-> IdleHandler]
    /\ courses = << >>
    /\ nextCourseId = 1
    /\ enrollments = << >>
    /\ nextEnrollmentId = 1
    /\ marks = << >>
    /\ nextMarksId = 1
    /\ attendance = NoAttendance
    /\ faculty = 0
    /\ dash = IdleDash
    /\ enroll = [h \in Handlers |-> IdlePost]
    /\ localStorage = NoItems
    /\ isAuthenticated = [c \in Components |-> FALSE]
    /\ tokenExpired = FALSE
    /\ token = Null
    /\ user = [c \in Components |-> Null]
    /\ profileError = FALSE

Crud ==
    \/ \E body \in FeePostBodies : FeePost(body)
    \/ \E id \in FeeIds, body \in FeePutBodies : FeePut(id, body)
    \/ \E id \in FeeIds : FeeDelete(id)
    \/ \E body \in StudentPostBodies : StudentPost(body)
    \/ \E id \in StudentIds, body \in StudentPutBodies : StudentPut(id, body)
    \/ \E id \in StudentIds, enforced \in BOOLEAN : StudentDelete(id, enforced)
    \/ Tick

Payment(h, requests) ==
    \/ \E req \in requests : PayBegin(h, req)
    \/ PayWriteFee(h)
    \/ PayWriteBalance(h)
    \/ PayFail(h)

\* One payment request at a time, its awaits interleaved with every other
\* request of the API.
Next == Crud \/ Payment(1, PayRequests)

Spec == Init /\ [][Next]_vars

\* Requests served strictly one after the other: no request arrives while a
\* payment is between its read and its last write.
NextSeq ==
    \/ ~InFlight(1) /\ Crud
    \/ Payment(1, PayRequests)

SpecSeq == Init /\ [][NextSeq]_vars

\* Two payment requests in flight at once against a ledger that is only
\* filled (students and fees are created, never updated or deleted); every
\* payment offers the exact amount of some fee.
RaceRequests == {GoodRequest(f, a) : f \in FeeIds, a \in FeeAmounts}

NextRace ==
    \/ \E body \in StudentPostBodies : StudentPost(body)
    \/ \E body \in FeePostBodies : FeePost(body)
    \/ \E h \in Handlers : Payment(h, RaceRequests)

SpecRace == Init /\ [][NextRace]_vars

\* A ledger that POST /api/students and two POST /api/fees have filled:
\* student 1 with two pending fees, ids 1 and 2.
InitTwoFees ==
    /\ students = [s \in StudentIds |->
            IF s = 1 THEN NewStudent([ok |-> TRUE, hasUserId |-> FALSE, balance |-> 4])
                     ELSE NoStudent]
    /\ fees = [f \in {1, 2} |->
            NewFee(GoodFee(1, IF f = 1 THEN 3 ELSE 4, ""), ISO(0))]
    /\ nextStudentId = 2
    /\ nextFeeId = 3
    /\ clock = 0
    /\ served = 0
    /\ pay = [h \in Handlers |-> IdleHandler]
    /\ courses = << >>
    /\ nextCourseId = 1
    /\ enrollments = << >>
    /\ nextEnrollmentId = 1
    /\ marks = << >>
    /\ nextMarksId = 1
    /\ attendance = NoAttendance
    /\ faculty = 0
    /\ dash = IdleDash
    /\ enroll = [h \in Handlers |-> IdlePost]
    /\ localStorage = NoItems
    /\ isAuthenticated = [c \in Components |-> FALSE]
    /\ tokenExpired = FALSE
    /\ token = Null
    /\ user = [c \in Components |-> Null]
    /\ profileError = FALSE

\* Two clients, one paying fee 1 and one paying fee 2, their requests in
\* flight at once.
NextTwoFees ==
    \/ Payment(1, {GoodRequest(1, a) : a \in PaidAmounts})
    \/ Payment(2, {GoodRequest(2, a) : a \in PaidAmounts})

SpecTwoFees == InitTwoFees /\ [][NextTwoFees]_vars

\* The enrollments route with requests in flight together: two handlers, each
\* taking its POST one awaited call at a time.
PostRequest(h) ==
    \/ \E body \in EnrollmentPostBodies : PostBegin(h, body)
    \/ PostStudentExists(h)
    \/ PostCourseExists(h)
    \/ PostExistingEnrollment(h)
    \/ \E enforced \in BOOLEAN : PostInsert(h, enforced)
    \/ PostFail(h)
    \/ PostReturn(h)

NextPosts ==
    \/ \E body \in EnrolledStudentBodies : StudentPost(body)
    \/ \E body \in CountedCourseBodies : CoursePost(body)
    \/ \E h \in Handlers : PostRequest(h)

SpecPosts == Init /\ [][NextPosts]_vars

\* The courses and enrollments routes in use together: courses are deleted
\* while an enrollment POST is in flight and between enrollment PUTs.
NextCourses ==
    \/ \E body \in EnrolledStudentBodies : StudentPost(body)
    \/ \E body \in CountedCourseBodies : CoursePost(body)
    \/ \E id \in CourseIds, enforced \in BOOLEAN : CourseDelete(id, enforced)
    \/ PostRequest(1)
    \/ \E id \in EnrollmentIds, body \in EnrollmentPutBodies : EnrollmentPut(id, body)

SpecCourses == Init /\ [][NextCourses]_vars

\* The browser: logins of two users, the two ways to log out, page loads
\* and the passing of time.
NextClient ==
    \/ \E authToken \in {"admin", "faculty"}, rememberMe \in BOOLEAN :
            Login(authToken, rememberMe)
    \/ handleSignOut
    \/ handleLogout
    \/ handleReLogin
    \/ \E profile \in {"expired", "unauthorized", "failed", "loaded"} : PageLoad(profile)
    \/ Tick

SpecClient == Init /\ [][NextClient]_vars

\* Sequential use of the enrollments route: every request is handled to its
\* end before the next one, on students and courses the other routes made.
NextEnroll ==
    \/ \E body \in EnrolledStudentBodies : StudentPost(body)
    \/ \E body \in CoursePostBodies : CoursePost(body)
    \/ \E body \in EnrollmentPostBodies : EnrollmentPost(body)
    \/ \E id \in EnrollmentIds, body \in EnrollmentPutBodies : EnrollmentPut(id, body)
    \/ \E id \in EnrollmentIds : EnrollmentDelete(id)

SpecEnroll == Init /\ [][NextEnroll]_vars

\* Sequential use of the marks route, on students and courses the other
\* routes made.
NextMarks ==
    \/ \E body \in EnrolledStudentBodies : StudentPost(body)
    \/ \E body \in CoursePostBodies : CoursePost(body)
    \/ \E body \in MarksPostBodies : MarksPost(body)
    \/ \E id \in MarksIds, body \in MarksPutBodies : MarksPut(id, body)
    \/ \E id \in MarksIds : MarksDelete(id)

SpecMarks == Init /\ [][NextMarks]_vars

\* The dashboard requested between writes of the routes it counts: a
\* request is handled to its end before the next write.
DashWrites ==
    \/ \E body \in EnrolledStudentBodies : StudentPost(body)
    \/ \E body \in CountedCourseBodies : CoursePost(body)
    \/ \E body \in CountedEnrollmentBodies : EnrollmentPost(body)
    \/ \E id \in EnrollmentIds : EnrollmentDelete(id)
    \/ \E body \in AttendancePostBodies : AttendancePost(body)
    \/ \E generated \in SeedCounts : AttendanceSeed(generated)
    \/ \E body \in FacultyPostBodies : FacultyPost(body)

NextDash ==
    \/ dash.pc = 0 /\ DashWrites
    \/ DashGet
    \/ DashQuery
    \/ DashFail
    \/ DashReturn

SpecDash == Init /\ [][NextDash]_vars

\* The dashboard requested while the enrollments and attendance routes are
\* in use: a write may come between any two queries of the handler.
RaceWrites ==
    \/ \E body \in EnrolledStudentBodies : StudentPost(body)
    \/ \E body \in CountedCourseBodies : CoursePost(body)
    \/ \E body \in CountedEnrollmentBodies : EnrollmentPost(body)
    \/ \E id \in EnrollmentIds : EnrollmentDelete(id)
    \/ \E body \in AttendancePostBodies : AttendancePost(body)

NextDashRace ==
    \/ RaceWrites
    \/ DashGet
    \/ DashQuery
    \/ DashFail
    \/ DashReturn

SpecDashRace == Init /\ [][NextDashRace]_vars

\* The dashboard requested between writes of the courses and marks routes.
PerfWrites ==
    \/ \E body \in EnrolledStudentBodies : StudentPost(body)
    \/ \E body \in CoursePostBodies : CoursePost(body)
    \/ \E body \in GradedMarksPostBodies : MarksPost(body)
    \/ \E id \in MarksIds, body \in GradedMarksPutBodies : MarksPut(id, body)
    \/ \E id \in MarksIds : MarksDelete(id)

NextPerf ==
    \/ dash.pc = 0 /\ PerfWrites
    \/ DashGet
    \/ DashQuery
    \/ DashFail
    \/ DashReturn

SpecPerf == Init /\ [][NextPerf]_vars

\* The students route alone: creations and updates, one after the other.
NextStudents ==
    \/ \E body \in StudentPostBodies : StudentPost(body)
    \/ \E id \in StudentIds, body \in StudentPutBodies \cup StatusPutBodies :
            StudentPut(id, body)

SpecStudents == Init /\ [][NextStudents]_vars

(* ------------------------------- claims ------------------------------- *)
Payable(fee) == fee.live /\ fee.status \in {"pending", "overdue"}
IsPaid(fee) == fee.live /\ fee.status = "paid"

\* Step of handler h from position p to position q.
Moves(h, p, q) == pay[h].pc = p /\ pay'[h].pc = q

\* What every PayBegin(h, req) step satisfies, whatever req is.
Begins(h) ==
    /\ ~InFlight(h)
    /\ served' # served
    /\ UNCHANGED <<dbVars, clock>>
    /\ \/ pay'[h].pc = "validated"
       \/ pay'[h].pc = "done" /\ pay'[h].code # "OK"

RECURSIVE SumAmounts(_, _)
SumAmounts(ids, tbl) ==
    IF ids = {} THEN 0
    ELSE LET f == CHOOSE x \in ids : TRUE
         IN tbl[f].amount + SumAmounts(ids \ {f}, tbl)

PaidSum(tbl, s) ==
    SumAmounts({f \in FeeIds : IsPaid(tbl[f]) /\ tbl[f].studentId = s}, tbl)
UnpaidSum(tbl, s) ==
    SumAmounts({f \in FeeIds : Payable(tbl[f]) /\ tbl[f].studentId = s}, tbl)

\* C1: of two concurrent payments of the same fee exactly one succeeds: no
\* two handlers both answer 200 for one fee (in SpecRace a fee is never set
\* back to pending, so two 200s for one fee are two payments of one debt).
C1_ExactlyOneSucceeds ==
    \A g, h \in Handlers :
        (g # h /\ pay[g].pc = "done" /\ pay[h].pc = "done"
            /\ pay[g].code = "OK" /\ pay[h].code = "OK")
        => pay[g].feeId # pay[h].feeId

\* C2: the two writes of a payment are atomic: no state shows the fee of a
\* payment marked paid while its student's balance still is the value read
\* before the payment.
C2_AtomicWrites ==
    \A h \in Handlers :
        ~(/\ pay[h].pc = "feeWritten"
          /\ IsPaid(fees[pay[h].feeId])
          /\ students[pay[h].studentId].live
          /\ students[pay[h].studentId].balance = pay[h].balance)

\* C3, as claimed: a payment request for a paid fee is answered
\* FEE_ALREADY_PAID and writes nothing, whatever amount, method and
\* transaction id it carries.
WellAddressed(req) ==
    req.auth /\ req.idOk /\ ~req.hasUserId /\ req.amount_paid # Null

C3_ReplayAlwaysConflict ==
    [][Begins(1) => \A req \in PayRequests :
        (WellAddressed(req) /\ IsPaid(fees[req.feeId]) /\ PayBegin(1, req))
        => (pay'[1].code = "FEE_ALREADY_PAID" /\ UNCHANGED dbVars)]_vars

\* C3, amended: a payment request for a paid fee never succeeds and writes
\* nothing; it is answered FEE_ALREADY_PAID whenever the request itself is
\* well-formed (whatever its amount) and the fee's student exists.  A step
\* that takes handler 1 out of rest is the start of a request: it writes no
\* table and goes on to the updates only for a fee that is not paid; and a
\* step with any other answer is not that of a well-formed request for a
\* paid fee.
C3_ReplayRejected ==
    [][/\ (~InFlight(1) /\ pay'[1] # pay[1])
            => /\ UNCHANGED dbVars
               /\ pay'[1].pc = "validated" => ~IsPaid(fees[pay'[1].feeId])
       /\ Begins(1) => \A req \in PayRequests :
            (/\ IsPaid(fees[req.feeId])
             /\ pay'[1].code # "FEE_ALREADY_PAID"
             /\ RequestError(req) = "OK"
             /\ JoinedStudent(fees[req.feeId]).live)
            => ~PayBegin(1, req)]_vars

C3_Witness ==
    /\ pay[1].pc = "done"
    /\ pay[1].code = "FEE_ALREADY_PAID"
    /\ \E f \in FeeIds : IsPaid(fees[f])

\* C4: every operation on the fee table keeps, for each student, the balance
\* plus the amounts of the student's paid fees unchanged: a fee is paid
\* exactly when its amount has been deducted once.
C4_PaidMeansDeducted ==
    [][fees' # fees =>
        \A s \in StudentIds :
            (students[s].live /\ students'[s].live)
            => students'[s].balance + PaidSum(fees', s)
                = students[s].balance + PaidSum(fees, s)]_vars

\* C5: paid is terminal: a paid fee stays paid and keeps its amount and its
\* paidDate for as long as the record exists.
C5_PaidIsTerminal ==
    [][\A f \in FeeIds :
        (IsPaid(fees[f]) /\ fees'[f].live)
        => /\ fees'[f].status = "paid"
           /\ fees'[f].amount = fees[f].amount
           /\ fees'[f].paidDate = fees[f].paidDate]_vars

\* C6: a fee becomes paid only by the fee write of a payment request.
C6_OnlyPaymentPays ==
    [][\A f \in FeeIds :
        (IsPaid(fees'[f]) /\ ~IsPaid(fees[f]))
        => \E h \in Handlers :
            Moves(h, "validated", "feeWritten") /\ pay[h].feeId = f]_vars

\* C7: the balance of an existing student changes only by the balance write
\* of a payment request.
C7_OnlyPaymentMovesBalance ==
    [][\A s \in StudentIds :
        (students[s].live /\ students'[s].live
            /\ students'[s].balance # students[s].balance)
        => \E h \in Handlers :
            Moves(h, "feeWritten", "done") /\ pay[h].studentId = s]_vars

\* C8: the balance follows the unpaid fees: every operation on the fee table
\* changes each student's balance by as much as it changes the sum of the
\* student's pending and overdue fees.
C8_BalanceTracksUnpaid ==
    [][fees' # fees =>
        \A s \in StudentIds :
            (students[s].live /\ students'[s].live)
            => students'[s].balance - students[s].balance
                = UnpaidSum(fees', s) - UnpaidSum(fees, s)]_vars

\* C9: for a well-formed request on a payable fee whose student exists, the
\* answer is AMOUNT_MISMATCH when the amounts differ by more than 0.01 and
\* the payment goes ahead when they differ by 0.01 or less.
C9_ToleranceDecides ==
    [][Begins(1) => \A req \in PayRequests :
        (/\ PayBegin(1, req)
         /\ RequestError(req) = "OK"
         /\ Payable(fees[req.feeId])
         /\ JoinedStudent(fees[req.feeId]).live)
        => IF Abs(req.amount_paid[1] - fees[req.feeId].amount) > 1
           THEN pay'[1].pc = "done" /\ pay'[1].code = "AMOUNT_MISMATCH"
           ELSE pay'[1].pc = "validated"]_vars

Violated(req, k) ==
    LET fee == fees[req.feeId] IN
    CASE k = 1 -> ~fee.live
      [] k = 2 -> fee.live /\ ~JoinedStudent(fee).live
      [] k = 3 -> \/ req.amount_paid = Null
                  \/ req.amount_paid[1] <= 0
                  \/ req.payment_method = ""
                  \/ req.transaction_id = ""
      [] k = 4 -> fee.live /\ fee.status \notin {"pending", "overdue"}
      [] k = 5 -> /\ fee.live
                  /\ req.amount_paid # Null
                  /\ Abs(req.amount_paid[1] - fee.amount) > 1

\* The precondition an answer reports; 0 for an answer that reports none.
Precondition(code) ==
    CASE code = "FEE_NOT_FOUND" -> 1
      [] code = "STUDENT_NOT_FOUND" -> 2
      [] code \in {"MISSING_AMOUNT_PAID", "MISSING_PAYMENT_METHOD",
                   "MISSING_TRANSACTION_ID", "INVALID_AMOUNT"} -> 3
      [] code \in {"FEE_ALREADY_PAID", "INVALID_FEE_STATUS"} -> 4
      [] code = "AMOUNT_MISMATCH" -> 5
      [] OTHER -> 0

RECURSIVE FirstViolated(_, _)
FirstViolated(order, req) ==
    IF order = << >> THEN 0
    ELSE IF Violated(req, Head(order)) THEN Head(order)
    ELSE FirstViolated(Tail(order), req)

StatedOrder == <<1, 2, 3, 4, 5>>
CheckedOrder == <<3, 1, 2, 4, 5>>

\* An authenticated request with a valid id and no identity field.
Addressed(req) == req.auth /\ req.idOk /\ ~req.hasUserId

\* Every request that violates a precondition is answered with the first one
\* violated in the given order.
FailsFast(order) ==
    \A req \in PayRequests :
        (Addressed(req) /\ FirstViolated(order, req) # 0)
        => Precondition(PaymentError(req)) = FirstViolated(order, req)

\* C12: a request that violates preconditions is answered with the error of
\* the first one violated in the order fee, student, input, status, amount.
C12_StatedOrder == FailsFast(StatedOrder)

\* C12, amended: the order is input, fee, student, status, amount.
C12_CheckedOrder == FailsFast(CheckedOrder)

\* An invalid body was answered as such although its fee does not exist.
C12_Witness ==
    /\ pay[1].pc = "done"
    /\ pay[1].code = "MISSING_PAYMENT_METHOD"
    /\ ~fees[1].live

\* Rows a route cannot store but the column admits: status is free text.
OtherStatuses == {"", "void", "refunded"}

\* C13: with the fee and its student present and a valid body, a paid fee is
\* answered FEE_ALREADY_PAID and a fee of any status other than pending,
\* overdue and paid INVALID_FEE_STATUS; a request goes on to the updates
\* only for a fee that is pending or overdue, and the step that answers or
\* goes on writes nothing.
C13_StatusGate ==
    /\ [](\A req \in PayRequests :
            (/\ RequestError(req) = "OK"
             /\ IsPaid(fees[req.feeId])
             /\ JoinedStudent(fees[req.feeId]).live)
            => PaymentError(req) = "FEE_ALREADY_PAID")
    /\ [](\A st \in OtherStatuses, a \in PaidAmounts :
            RecordError(a, [NoFee EXCEPT !.live = TRUE, !.status = st, !.amount = a],
                        [NoStudent EXCEPT !.live = TRUE]) = "INVALID_FEE_STATUS")
    /\ [][(~InFlight(1) /\ pay'[1] # pay[1])
            => /\ UNCHANGED dbVars
               /\ pay'[1].pc = "validated" => Payable(fees[pay'[1].feeId])]_vars

\* A payment is going ahead for an overdue fee.
C13_Witness ==
    /\ pay[1].pc = "validated"
    /\ fees[pay[1].feeId].live
    /\ fees[pay[1].feeId].status = "overdue"

\* Authenticated requests with a valid id whose body has an identity field,
\* with every combination of the other body fields.
IdentityRequests ==
    {[GoodRequest(1, 3) EXCEPT !.hasUserId = TRUE, !.amount_paid = a,
                               !.payment_method = m, !.transaction_id = t] :
        a \in {Null, <<0>>, <<3>>}, m \in {"", "cash"}, t \in {"", "TXN"}}

\* C14: a request whose body has an identity field is answered
\* USER_ID_NOT_ALLOWED whatever its other fields and whatever the fee, the
\* step that answers so writes nothing, and a payment under way or answered
\* 200 carries the id of the session's user as processed_by.
C14_IdentityRejected ==
    /\ [](\A req \in IdentityRequests : PaymentError(req) = "USER_ID_NOT_ALLOWED")
    /\ [][(pay'[1] # pay[1] /\ pay'[1].code = "USER_ID_NOT_ALLOWED")
            => (~InFlight(1) /\ pay'[1].pc = "done" /\ UNCHANGED dbVars)]_vars
    /\ []((InFlight(1) \/ (pay[1].pc = "done" /\ pay[1].code = "OK"))
            => pay[1].processedBy = GoodRequest(1, 3).userId)

\* The request with an identity field was refused while its fee was payable.
C14_Witness ==
    /\ pay[1].pc = "done"
    /\ pay[1].code = "USER_ID_NOT_ALLOWED"
    /\ Payable(fees[1])
    /\ JoinedStudent(fees[1]).live

\* Requests for which getCurrentUser resolves no user, for every fee id,
\* valid or not, with and without an identity field or an amount.
AnonymousRequests ==
    {[GoodRequest(f, 3) EXCEPT !.auth = FALSE, !.userId = "", !.idOk = i,
                               !.hasUserId = u, !.amount_paid = a] :
        f \in FeeIds, i \in BOOLEAN, u \in BOOLEAN, a \in {Null, <<3>>}}

\* C15: a request without a user is answered AUTH_REQUIRED (401) whatever
\* else it holds and whatever the tables hold, the step that answers so
\* writes nothing, and every write of a payment request is made by a
\* handler that holds the id of a user.
C15_ActorRequired ==
    /\ [](\A req \in AnonymousRequests : PaymentError(req) = "AUTH_REQUIRED")
    /\ [][(pay'[1] # pay[1] /\ pay'[1].code = "AUTH_REQUIRED")
            => (~InFlight(1) /\ pay'[1].pc = "done" /\ UNCHANGED dbVars)]_vars
    /\ [][(pay'[1] # pay[1] /\ dbVars' # dbVars) => pay[1].processedBy # ""]_vars

\* The request without a user was refused while its fee was payable.
C15_Witness ==
    /\ pay[1].pc = "done"
    /\ pay[1].code = "AUTH_REQUIRED"
    /\ Payable(fees[1])
    /\ JoinedStudent(fees[1]).live

\* C16: under sequential enrollment POST, PUT and DELETE requests no two
\* records of the enrollments table have the same (student, course) pair.
C16_EnrollmentUnique ==
    \A e1, e2 \in DOMAIN enrollments :
        (/\ e1 # e2
         /\ enrollments[e1].live
         /\ enrollments[e2].live
         /\ enrollments[e1].studentId = enrollments[e2].studentId)
        => enrollments[e1].courseId # enrollments[e2].courseId

\* C17: after any sequence of marks POST and PUT requests every marks record
\* has internalMarks and externalMarks in 0..100, totalMarks their sum and
\* the grade of that total (A from 90, B from 80, C from 70, D from 60, else
\* F), whatever totalMarks and grade the request bodies supplied.
C17_MarksDerived ==
    \A m \in DOMAIN marks : marks[m].live =>
        /\ marks[m].internalMarks \in 0..100
        /\ marks[m].externalMarks \in 0..100
        /\ marks[m].totalMarks = marks[m].internalMarks + marks[m].externalMarks
        /\ marks[m].grade = "A" <=> marks[m].totalMarks >= 90
        /\ marks[m].grade = "B" <=> marks[m].totalMarks \in 80..89
        /\ marks[m].grade = "C" <=> marks[m].totalMarks \in 70..79
        /\ marks[m].grade = "D" <=> marks[m].totalMarks \in 60..69
        /\ marks[m].grade = "F" <=> marks[m].totalMarks < 60

\* a record graded B: internal marks 89.5 stored as 89, no external marks
C17_Witness ==
    \E m \in DOMAIN marks :
        /\ marks[m].live
        /\ marks[m].internalMarks = 89
        /\ marks[m].externalMarks = 0
        /\ marks[m].grade = "B"

\* r is an integer nearest to 100 * part / total
Nearest(r, part, total) ==
    /\ 2 * (100 * part - r * total) <= total
    /\ 2 * (r * total - 100 * part) <= total

\* The dashboard responds with its report.
Reports == dash.pc # Done /\ dash'.pc = Done /\ dash'.response.status = 200

C19_AllOrError ==
    /\ [](dash.pc = Done =>
            \/ /\ dash.response.status = 200
               /\ dash.response.sections = Sections
            \/ /\ dash.response.status = 500
               /\ dash.response.code = "DASHBOARD_STATS_ERROR"
               /\ dash.response.sections = {})
    /\ [][(dash.pc \in 1..(Len(Queries) - 1) /\ dash'.pc = Done)
            => dash'.response.status = 500]_vars
    /\ [][(dash.pc # Done /\ dash'.pc = Done /\ dash'.response.status = 200)
            => dash.pc = Len(Queries)]_vars

\* a request that failed after the enrollment counts had been read
C19_Witness ==
    /\ dash.pc = Done
    /\ dash.response.status = 500
    /\ dash.totalEnrollments > 0

\* C20: no step of the dashboard handler, whether the request succeeds or
\* fails, changes a student, course, faculty, fee, marks, attendance or
\* enrollment record.
C20_PureRead ==
    [][dash' # dash =>
        UNCHANGED <<students, courses, faculty, fees, marks, attendance,
                    enrollments>>]_vars

\* a report sent on a store holding enrollments and attendance records
C20_Witness ==
    /\ dash.pc = Done
    /\ dash.response.status = 200
    /\ dash.presentRecords = 23
    /\ dash.totalAttendanceRecords = 40
    /\ \E e \in DOMAIN enrollments : enrollments[e].live

\* a and b are the same average
SameAverage(a, b) ==
    a.count > 0 /\ b.count > 0 /\ a.sum * b.count = b.sum * a.count

\* the average of a is above that of b
HigherAverage(a, b) ==
    a.count > 0 /\ b.count > 0 /\ a.sum * b.count > b.sum * a.count

\* C21: in a report, averageGradesByCourse and topPerformingCourses list an
\* average only for courses having a marks record with totalMarks > 0;
\* topPerformingCourses has at most 5 courses, each listed average is the
\* one averageGradesByCourse has for that course, the list descends by that
\* average and no course left out has a higher one.  (A course listed with
\* no average at all is let pass.)
C21_TopByAverage ==
    (dash.pc = Done /\ dash.response.status = 200) =>
        LET avg == dash.response.averageGradesByCourse
            top == dash.response.topPerformingCourses
            listed == {i \in DOMAIN top : top[i].averageMarks.count > 0}
            HasGraded(c) == \E m \in DOMAIN marks :
                                /\ marks[m].live
                                /\ marks[m].courseId = c
                                /\ marks[m].totalMarks > 0
        IN  /\ Len(top) <= 5
            /\ \A r \in avg : HasGraded(r.course)
            /\ \A i \in listed :
                /\ HasGraded(top[i].course)
                /\ \E r \in avg : /\ r.course = top[i].course
                                  /\ SameAverage(r.averageMarks, top[i].averageMarks)
            /\ \A i, j \in listed :
                i < j => ~HigherAverage(top[j].averageMarks, top[i].averageMarks)
            /\ \A r \in avg :
                (\A i \in DOMAIN top : top[i].course # r.course)
                => \A i \in listed : ~HigherAverage(r.averageMarks, top[i].averageMarks)

\* C22: the body of the response to a payment request whose database call
\* failed holds no text of the exception.
C22_Sanitized ==
    \A h \in Handlers :
        (pay[h].pc = "done" /\ pay[h].code = "INTERNAL_ERROR")
        => \A i \in DOMAIN pay[h].error : pay[h].error[i] \notin Exceptions

\* C23: after any sequence of student POST and PUT requests every student's
\* status is one of active, inactive, graduated.
C23_StudentStatus ==
    \A id \in StudentIds :
        students[id].live => students[id].status \in {"active", "inactive", "graduated"}

\* C24: when the payments of two different fees of one student have both
\* succeeded, the student's balance is the one before them less both
\* amounts paid.
C24_BothDeducted ==
    (/\ pay[1].pc = "done" /\ pay[1].code = "OK"
     /\ pay[2].pc = "done" /\ pay[2].code = "OK")
    => students[1].balance =
            4 - (pay[1].previousBalance - pay[1].newBalance)
              - (pay[2].previousBalance - pay[2].newBalance)

\* C25: two POST requests for the same (studentId, courseId) pair that are in
\* flight together do not both create a record: when both have been answered,
\* at most one of them was answered with the new record.
C25_OneCreated ==
    ~ (/\ enroll[1].pc = "done" /\ enroll[1].code = "OK"
       /\ enroll[2].pc = "done" /\ enroll[2].code = "OK"
       /\ enroll[1].studentId = enroll[2].studentId
       /\ enroll[1].courseId = enroll[2].courseId)

\* C26: in every report of the dashboard, also one built while enrollments
\* and attendance records are being written, the active enrollments are at
\* most the total, the present records are at most the total records, and
\* both rates lie in 0..100.
C26_CountsBounded ==
    (dash.pc = Done /\ dash.response.status = 200)
    => /\ dash.activeEnrollments <= dash.totalEnrollments
       /\ dash.presentRecords <= dash.totalAttendanceRecords
       /\ dash.response.completionRate \in 0..100
       /\ dash.response.overallPercentage \in 0..100

\* C27: whatever fees are created, updated and paid, a fee has status paid
\* exactly when its paidDate is not null.
C27_PaidHasDate ==
    \A f \in FeeIds :
        fees[f].live => (fees[f].status = "paid" <=> fees[f].paidDate # Null)

\* C28: whatever fees are created, updated and paid, every fee has one of the
\* statuses pending, overdue, paid, one of the types tuition, exam, library,
\* hostel and a positive amount, and no payment request is answered
\* INVALID_FEE_STATUS.
C28_FeeDomains ==
    /\ \A f \in FeeIds :
          fees[f].live => /\ fees[f].status \in {"pending", "overdue", "paid"}
                          /\ fees[f].type \in {"tuition", "exam", "library", "hostel"}
                          /\ fees[f].amount > 0
    /\ \A h \in Handlers : pay[h].code # "INVALID_FEE_STATUS"

\* A fee created through the API that a payment request has then paid.
C28_Witness ==
    /\ fees[1].live
    /\ fees[1].status = "paid"
    /\ pay[1].pc = "done"
    /\ pay[1].code = "OK"
    /\ pay[1].feeId = 1

\* C29: whatever course DELETE and enrollment POST and PUT requests have
\* been served, in whatever interleaving, every enrollment with status active
\* refers to a course that exists.
C29_ActiveHasCourse ==
    \A e \in DOMAIN enrollments :
        (enrollments[e].live /\ enrollments[e].status = "active")
        => CourseExists(enrollments[e].courseId)

\* C30: a logout, Home.handleSignOut or Header.handleLogout, leaves none of
\* jwt, auth_token and auth_token_expiry in localStorage.
C30_LogoutClears ==
    [][(handleSignOut \/ handleLogout)
        => \A k \in AuthKeys : localStorage'[k] = Null]_vars

====
